---- MODULE Spec2Model ----
(***************************************************************************)
(* Model of libs/index/odc/index/_index.py: the lazy generators           *)
(* time_range, chop_query_by_time, ordered_dss, parse_doc_stream and       *)
(* from_metadata_stream.  Every generator is a record holding its frame    *)
(* (locals and position); one action is one next() call of its consumer.   *)
(*                                                                         *)
(* Time: a datetime is [us, tzinfo], us = wall-clock microseconds; a       *)
(* pandas Timestamp is [us, ns] (naive, nanosecond resolution).            *)
(***************************************************************************)
EXTENDS Integers, Sequences, FiniteSets, TLC

VARIABLES
    tr,        \* frame of the time_range generator under test
    tr_out,    \* the sub-intervals it has yielded
    chop,      \* frame of the chop_query_by_time generator under test
    chop_q0,   \* the search terms of its Query argument at the call
    chop_out,  \* the sub-queries it has yielded
    ods,       \* frame of the ordered_dss generator under test
    find_calls,\* the search terms of every dc.find_datasets call, in order
    ods_found, \* the batch the latest find_datasets call returned, as returned
    ods_yield, \* the records yielded since the latest find_datasets call
    ods_prev,  \* center time of the last record yielded before that call, -1 if none
    ods_inb,   \* every batch so far had its center times inside its sub-interval
    pds,       \* frame of the parse_doc_stream generator under test
    pds_failed,\* per item consumed, whether parse_yaml raised
    pds_out,   \* the (uri, metadata) pairs it has yielded
    on_error_calls, \* the (uri, doc) of every on_error call, in order
    fms,       \* frame of the from_metadata_stream generator under test
    fms_out,   \* the (dataset, error) pairs it has yielded
    doc2ds_calls    \* the (metadata, uri) of every doc2ds call, in order

trVars == <<tr, tr_out>>
chopVars == <<chop, chop_q0, chop_out>>
odsVars == <<ods, find_calls, ods_found, ods_yield, ods_prev, ods_inb>>
pdsVars == <<pds, pds_failed, pds_out, on_error_calls>>
fmsVars == <<fms, fms_out, doc2ds_calls>>
vars == <<tr, tr_out, chop, chop_q0, chop_out,
          ods, find_calls, ods_found, ods_yield, ods_prev, ods_inb,
          pds, pds_failed, pds_out, on_error_calls, fms, fms_out, doc2ds_calls>>

\* a generator that is not part of the run
Idle == [pc |-> "idle"]

\* ---- bounds ----
MaxTime == 6      \* datetimes of the inputs lie in 0..MaxTime microseconds
DayTicks == 2     \* microseconds in one day (scaled down)
MaxBatch == 2     \* find_datasets returns at most MaxBatch records
MaxItems == 3     \* the input streams hold at most MaxItems items

\* ---- values ----
None == [type |-> "None"]
TzInfos == {"naive", "UTC+10"}
Freqs == {"d", "m"}

datetime(us, tzinfo) == [us |-> us, tzinfo |-> tzinfo]

\* ---- pandas.Period, as used by time_range ----
\* days of the n-th period: a day is one day, months alternate 1 and 2 days
DaysIn(freq, n) == IF freq = "d" THEN 1 ELSE IF n % 2 = 0 THEN 1 ELSE 2

RECURSIVE PeriodStart(_, _)
PeriodStart(freq, n) ==
    IF n = 0 THEN 0 ELSE PeriodStart(freq, n - 1) + DaysIn(freq, n - 1) * DayTicks

\* Period(begin, freq): the period whose wall-clock span contains begin
Period(dt, freq) ==
    CHOOSE n \in 0..dt.us : PeriodStart(freq, n) <= dt.us /\ dt.us < PeriodStart(freq, n + 1)

start_time(freq, n) == [us |-> PeriodStart(freq, n), ns |-> 0]

\* end_time is the start of the next period less one nanosecond
end_time(freq, n) ==
    LET nxt == start_time(freq, n + 1)
    IN IF nxt.ns > 0 THEN [us |-> nxt.us, ns |-> nxt.ns - 1]
       ELSE [us |-> nxt.us - 1, ns |-> 999]

\* to_pydate rounding to the nearest microsecond instead of truncating
to_pydate_round(ts, tzinfo) == datetime(IF ts.ns >= 500 THEN ts.us + 1 ELSE ts.us, tzinfo)

\* Timestamp.to_pydatetime(warn=False) drops the nanoseconds; replace() sets tzinfo
to_pydate(ts, tzinfo) == datetime(ts.us, tzinfo)

\* begin taken for the start of every sub-interval
DtMax_begin(a, b) == b

\* min where max was meant
DtMax_min(a, b) == IF b.us < a.us THEN b ELSE a

\* Python max of two datetimes with one tzinfo: the first argument wins ties
DtMax(a, b) == IF b.us > a.us THEN b ELSE a

\* the period's end, not clipped to end
DtMin_noclip(a, b) == a

\* Python min of two datetimes with one tzinfo: the first argument wins ties
DtMin(a, b) == IF b.us < a.us THEN b ELSE a

\* break already when the period starts at end
PastEnd_ge(t0, end) == t0.us >= end.us

\* the loop's break condition, t0 > end
PastEnd(t0, end) == t0.us > end.us

\* t += 1, line 120
NextPeriod(t) == t + 1

\* ---- time_range(begin, end, freq) ----
\* a fresh generator: nothing of the body has run
time_range(begin, end, freq) ==
    [pc |-> "start", begin |-> begin, end |-> end, freq |-> freq,
     tzinfo |-> "unbound", t |-> -1]

\* one next() on a time_range generator: the new frame and what was yielded
\* (out = <<>> when the generator is exhausted)
TimeRangeResume(g) ==
    LET tzinfo == IF g.pc = "start" THEN g.begin.tzinfo ELSE g.tzinfo
        t == IF g.pc = "start" THEN Period(g.begin, g.freq) ELSE NextPeriod(g.t)
        t0 == to_pydate(start_time(g.freq, t), tzinfo)
        t1 == to_pydate(end_time(g.freq, t), tzinfo)
    IN IF g.pc = "done" THEN [g |-> g, out |-> <<>>]
       ELSE IF PastEnd(t0, g.end)
            THEN [g |-> [g EXCEPT !.pc = "done", !.tzinfo = tzinfo, !.t = t], out |-> <<>>]
            ELSE [g |-> [g EXCEPT !.pc = "yield", !.tzinfo = tzinfo, !.t = t],
                  out |-> << <<DtMax(t0, g.begin), DtMin(t1, g.end)>> >>]

DateTimes == {datetime(us, tz) : us \in 0..MaxTime, tz \in TzInfos}
\* begin <= end, sharing a timezone
TimeSpans == {be \in DateTimes \X DateTimes :
                be[1].tzinfo = be[2].tzinfo /\ be[1].us <= be[2].us}

TRIdle == tr = Idle /\ tr_out = <<>>
ChopIdle == chop = Idle /\ chop_q0 = Idle /\ chop_out = <<>>

OdsIdle ==
    /\ ods = Idle /\ find_calls = <<>> /\ ods_found = <<>> /\ ods_yield = <<>>
    /\ ods_prev = -1 /\ ods_inb = TRUE

PdsIdle == pds = Idle /\ pds_failed = <<>> /\ pds_out = <<>> /\ on_error_calls = <<>>
FmsIdle == fms = Idle /\ fms_out = <<>> /\ doc2ds_calls = <<>>

TRInit ==
    /\ ChopIdle /\ OdsIdle /\ PdsIdle /\ FmsIdle
    /\ \E be \in TimeSpans, freq \in Freqs : tr = time_range(be[1], be[2], freq)
    /\ tr_out = <<>>

\* the consumer asks for the next sub-interval
TimeRangePull ==
    /\ tr.pc \in {"start", "yield"}
    /\ LET r == TimeRangeResume(tr)
       IN /\ tr' = r.g
          /\ tr_out' = tr_out \o r.out
    /\ UNCHANGED <<chopVars, odsVars, pdsVars, fmsVars>>

TRNext == TimeRangePull

SpecTimeRange == TRInit /\ [][TRNext]_vars
LiveTimeRange == TRInit /\ [][TRNext]_vars /\ WF_vars(TimeRangePull)

\* ---- datacube Query and Range, dicts ----
Range(t0, t1) == [type |-> "Range", begin |-> t0, end |-> t1]
\* Query(**terms): the object is its search terms
Query(terms) == [search_terms |-> terms]

\* dict(**d): a new dict with the items of d
dict_copy(d) == d
\* d after d.pop(key)
dict_del(d, key) == [k \in DOMAIN d \ {key} |-> d[k]]
\* dict(**d, time=v)
dict_with_time(d, v) == [k \in DOMAIN d \cup {"time"} |-> IF k = "time" THEN v ELSE d[k]]

\* the sub-query built with the popped terms forgotten
SubQuery_timeonly(qq, t0, t1) == Query([time |-> Range(t0, t1)])

\* Query(**qq, time=Range(t0, t1)), line 133
SubQuery(qq, t0, t1) == Query(dict_with_time(qq, Range(t0, t1)))

\* ---- chop_query_by_time(q, freq) ----
chop_query_by_time(q, freq) ==
    [pc |-> "start", q |-> q, freq |-> freq, qq |-> Idle, tr |-> Idle]

\* the for loop asks time_range for its next pair, lines 132-133
ChopLoop(g, qq, inner) ==
    LET r == TimeRangeResume(inner)
    IN IF r.out = <<>>
       THEN [g |-> [g EXCEPT !.pc = "done", !.qq = qq, !.tr = r.g], out |-> <<>>]
       ELSE [g |-> [g EXCEPT !.pc = "yield", !.qq = qq, !.tr = r.g],
             out |-> <<SubQuery(qq, r.out[1][1], r.out[1][2])>>]

\* one next() on a chop_query_by_time generator; pc "KeyError" and
\* "ValueError" are the generator finished by that exception
ChopResume(g) ==
    IF g.pc = "start"
    THEN LET qq == dict_copy(g.q.search_terms)
         IN IF "time" \notin DOMAIN qq
            THEN [g |-> [g EXCEPT !.pc = "KeyError", !.qq = qq], out |-> <<>>]
            ELSE LET time == qq["time"]
                     popped == dict_del(qq, "time")
                 IN IF time = None
                    THEN [g |-> [g EXCEPT !.pc = "ValueError", !.qq = popped], out |-> <<>>]
                    ELSE ChopLoop(g, popped, time_range(time.begin, time.end, g.freq))
    ELSE IF g.pc = "yield" THEN ChopLoop(g, g.qq, g.tr)
    ELSE [g |-> g, out |-> <<>>]

Products == {"ls8", "s2"}
TimeTerms == {None} \cup {Range(be[1], be[2]) : be \in TimeSpans}
\* search terms of the Query arguments: a product, and a time term that is
\* absent, None or a Range
SearchTerms ==
    {[product |-> p] : p \in Products}
    \cup {[product |-> p, time |-> tm] : p \in Products, tm \in TimeTerms}

ChopInit ==
    /\ TRIdle /\ OdsIdle /\ PdsIdle /\ FmsIdle
    /\ \E st \in SearchTerms, freq \in Freqs :
         /\ chop = chop_query_by_time(Query(st), freq)
         /\ chop_q0 = st
    /\ chop_out = <<>>

\* the consumer asks for the next sub-query
ChopPull ==
    /\ chop.pc \in {"start", "yield"}
    /\ LET r == ChopResume(chop)
       IN /\ chop' = r.g
          /\ chop_out' = chop_out \o r.out
    /\ UNCHANGED <<chop_q0>>
    /\ UNCHANGED <<trVars, odsVars, pdsVars, fmsVars>>

ChopNext == ChopPull

SpecChop == ChopInit /\ [][ChopNext]_vars

\* ---- ordered_dss(dc, freq, **query) ----
\* a dataset, as far as ordered_dss looks at it: its center time, microseconds
Dataset(ct) == [center_time |-> ct]

RECURSIVE SeqsUpTo(_, _)
SeqsUpTo(S, n) ==
    IF n = 0 THEN {<<>>}
    ELSE LET shorter == SeqsUpTo(S, n - 1)
         IN shorter \cup {Append(sq, x) : sq \in {b \in shorter : Len(b) = n - 1}, x \in S}

\* what dc.find_datasets(**terms) may return: any list of at most MaxBatch
\* datasets, in any order; the center times taken are the two ends of the
\* queried interval and the instants just before and just after it
FindResults(terms) ==
    LET t0 == terms["time"].begin.us
        t1 == terms["time"].end.us
        cts == {ct \in {t0 - 1, t0, t1, t1 + 1} : ct >= 0}
    IN SeqsUpTo({Dataset(ct) : ct \in cts}, MaxBatch)

\* dss.sort(key=...) with the order reversed
RECURSIVE SortByCenterTime_desc(_)
SortByCenterTime_desc(dss) ==
    IF dss = <<>> THEN <<>>
    ELSE LET rest == SortByCenterTime_desc(Tail(dss))
             x == Head(dss)
             n == Cardinality({j \in 1..Len(rest) : rest[j].center_time > x.center_time})
         IN SubSeq(rest, 1, n) \o <<x>> \o SubSeq(rest, n + 1, Len(rest))

\* dss.sort(key=lambda ds: ds.center_time): stable, ascending
RECURSIVE SortByCenterTime(_)
SortByCenterTime(dss) ==
    IF dss = <<>> THEN <<>>
    ELSE LET rest == SortByCenterTime(Tail(dss))
             x == Head(dss)
             n == Cardinality({j \in 1..Len(rest) : rest[j].center_time < x.center_time})
         IN SubSeq(rest, 1, n) \o <<x>> \o SubSeq(rest, n + 1, Len(rest))

ordered_dss(freq, query) ==
    [pc |-> "start", query |-> query, freq |-> freq, chop |-> Idle,
     q |-> Idle, dss |-> <<>>, i |-> 0]

InBounds(terms, batch) ==
    \A j \in 1..Len(batch) :
        /\ terms["time"].begin.us <= batch[j].center_time
        /\ batch[j].center_time <= terms["time"].end.us

\* queries of the ordered_dss runs: one product, naive datetimes
OdsQueries ==
    {st \in SearchTerms :
        /\ st["product"] = "ls8"
        /\ "time" \in DOMAIN st =>
             (st["time"] = None \/ st["time"].begin.tzinfo = "naive")}

OdsInit ==
    /\ TRIdle /\ ChopIdle /\ PdsIdle /\ FmsIdle
    /\ \E st \in OdsQueries, freq \in Freqs : ods = ordered_dss(freq, st)
    /\ find_calls = <<>> /\ ods_found = <<>> /\ ods_yield = <<>>
    /\ ods_prev = -1 /\ ods_inb = TRUE

\* the for loop of ordered_dss takes the next sub-query from the chopper
\* and, when there is one, calls find_datasets and sorts the batch
\* (lines 142-146); the chopper's exception leaves through ordered_dss
OdsFind ==
    /\ ods.pc \in {"start", "loop"}
    /\ LET gen == IF ods.pc = "start"
                  THEN chop_query_by_time(Query(ods.query), ods.freq)
                  ELSE ods.chop
           r == ChopResume(gen)
       IN IF r.out = <<>>
          THEN /\ ods' = [ods EXCEPT !.pc = IF r.g.pc = "done" THEN "done" ELSE r.g.pc,
                                     !.chop = r.g]
               /\ UNCHANGED <<find_calls, ods_found, ods_yield, ods_prev, ods_inb>>
          ELSE \E batch \in FindResults(r.out[1].search_terms) :
                 LET dss == SortByCenterTime(batch)
                 IN /\ ods' = [ods EXCEPT !.pc = IF dss = <<>> THEN "loop" ELSE "yield",
                                          !.chop = r.g, !.q = r.out[1],
                                          !.dss = dss, !.i = 0]
                    /\ find_calls' = Append(find_calls, r.out[1].search_terms)
                    /\ ods_found' = batch
                    /\ ods_yield' = <<>>
                    /\ ods_prev' = IF ods_yield = <<>> THEN ods_prev
                                   ELSE ods_yield[Len(ods_yield)].center_time
                    /\ ods_inb' = (ods_inb /\ InBounds(r.out[1].search_terms, batch))
    /\ UNCHANGED <<trVars, chopVars, pdsVars, fmsVars>>

\* yield from dss: the next record of the sorted batch, line 147
OdsYield ==
    /\ ods.pc = "yield"
    /\ ods' = [ods EXCEPT !.i = ods.i + 1,
                          !.pc = IF ods.i + 1 = Len(ods.dss) THEN "loop" ELSE "yield"]
    /\ ods_yield' = Append(ods_yield, ods.dss[ods.i + 1])
    /\ UNCHANGED <<find_calls, ods_found, ods_prev, ods_inb>>
    /\ UNCHANGED <<trVars, chopVars, pdsVars, fmsVars>>

OdsNext == OdsFind \/ OdsYield

SpecOds == OdsInit /\ [][OdsNext]_vars

\* ---- parse_doc_stream(doc_stream, on_error) ----
Uris == {"u1", "u2"}
Docs == {"d1", "d2"}
\* the dict parse_yaml makes of a document
Parsed(doc) == [type |-> "dict", doc |-> doc]

\* on_error tells whether a callback was supplied
parse_doc_stream(doc_stream, on_error) ==
    [pc |-> "start", doc_stream |-> doc_stream, pos |-> 0, on_error |-> on_error]

\* a parse failure that leaves the generator instead of being handled
PdsResume_abort(g, raised) ==
    IF g.pc = "done" \/ g.pos = Len(g.doc_stream)
    THEN [g |-> [g EXCEPT !.pc = "done"], out |-> <<>>, errs |-> <<>>]
    ELSE LET uri == g.doc_stream[g.pos + 1][1]
             doc == g.doc_stream[g.pos + 1][2]
         IN IF raised
            THEN [g |-> [g EXCEPT !.pc = "done", !.pos = g.pos + 1], out |-> <<>>,
                  errs |-> IF g.on_error THEN << <<uri, doc>> >> ELSE <<>>]
            ELSE [g |-> [g EXCEPT !.pc = "yield", !.pos = g.pos + 1],
                  out |-> << <<uri, Parsed(doc)>> >>, errs |-> <<>>]

\* one next() on a parse_doc_stream generator, parse_yaml raising or not
\* on the item it takes: the new frame, what was yielded, the on_error calls
PdsResume(g, raised) ==
    IF g.pc = "done" \/ g.pos = Len(g.doc_stream)
    THEN [g |-> [g EXCEPT !.pc = "done"], out |-> <<>>, errs |-> <<>>]
    ELSE LET uri == g.doc_stream[g.pos + 1][1]
             doc == g.doc_stream[g.pos + 1][2]
             metadata == IF raised THEN None ELSE Parsed(doc)
         IN [g |-> [g EXCEPT !.pc = "yield", !.pos = g.pos + 1],
             out |-> << <<uri, metadata>> >>,
             errs |-> IF raised /\ g.on_error THEN << <<uri, doc>> >> ELSE <<>>]

PdsInit ==
    /\ TRIdle /\ ChopIdle /\ OdsIdle /\ FmsIdle
    /\ \E ds \in SeqsUpTo(Uris \X Docs, MaxItems), cb \in BOOLEAN :
         pds = parse_doc_stream(ds, cb)
    /\ pds_failed = <<>> /\ pds_out = <<>> /\ on_error_calls = <<>>

\* the consumer asks for the next (uri, metadata) pair
PdsPull ==
    /\ pds.pc \in {"start", "yield"}
    /\ \E raised \in BOOLEAN :
         LET r == PdsResume(pds, raised)
         IN /\ raised => pds.pos < Len(pds.doc_stream)
            /\ pds' = r.g
            /\ pds_out' = pds_out \o r.out
            /\ on_error_calls' = on_error_calls \o r.errs
            /\ pds_failed' = IF pds.pos < Len(pds.doc_stream)
                             THEN Append(pds_failed, raised) ELSE pds_failed
    /\ UNCHANGED <<trVars, chopVars, odsVars, fmsVars>>

PdsNext == PdsPull

SpecParse == PdsInit /\ [][PdsNext]_vars

\* ---- from_metadata_stream(metadata_stream, index, **kwargs) ----
Str(parts) == [type |-> "str", text |-> parts]
\* what doc2ds(metadata, uri) may return: (ds, err), each of them possibly None
Doc2dsResults(metadata, uri) ==
    {[type |-> "Dataset", doc |-> metadata.doc, uri |-> uri], None}
        \X {Str(<<"lineage">>), None}

\* the resolver's pair passed on as it came
FmsResult_passthrough(res, uri) == <<res[1], res[2]>>

\* lines 33-36: the pair yielded for what doc2ds returned
FmsResult(res, uri) ==
    IF res[1] # None THEN <<res[1], None>>
    ELSE <<None, Str(<<"Error: ", uri, ", ", res[2]>>)>>

\* line 30
FmsEmpty(uri) == <<None, Str(<<"Error: empty doc ", uri>>)>>

from_metadata_stream(metadata_stream) ==
    [pc |-> "start", metadata_stream |-> metadata_stream, pos |-> 0]

FmsInit ==
    /\ TRIdle /\ ChopIdle /\ OdsIdle /\ PdsIdle
    /\ \E ms \in SeqsUpTo(Uris \X {None, Parsed("d1")}, MaxItems) :
         fms = from_metadata_stream(ms)
    /\ fms_out = <<>> /\ doc2ds_calls = <<>>

\* the consumer asks for the next result
FmsPull ==
    /\ fms.pc \in {"start", "yield"}
    /\ IF fms.pos = Len(fms.metadata_stream)
       THEN /\ fms' = [fms EXCEPT !.pc = "done"]
            /\ UNCHANGED <<fms_out, doc2ds_calls>>
       ELSE LET uri == fms.metadata_stream[fms.pos + 1][1]
                metadata == fms.metadata_stream[fms.pos + 1][2]
            IN /\ fms' = [fms EXCEPT !.pc = "yield", !.pos = fms.pos + 1]
               /\ IF metadata = None
                  THEN /\ fms_out' = Append(fms_out, FmsEmpty(uri))
                       /\ UNCHANGED doc2ds_calls
                  ELSE \E res \in Doc2dsResults(metadata, uri) :
                         /\ fms_out' = Append(fms_out, FmsResult(res, uri))
                         /\ doc2ds_calls' = Append(doc2ds_calls, <<metadata, uri>>)
    /\ UNCHANGED <<trVars, chopVars, odsVars, pdsVars>>

FmsNext == FmsPull

SpecResolve == FmsInit /\ [][FmsNext]_vars

\* ---- properties of time_range ----
TrDone == tr.pc = "done"
TrFirstPeriod == Period(tr.begin, tr.freq)

\* C1 as stated: the sub-intervals tile [begin, end] and neighbours share
\* their boundary point: each t0 equals the previous t1.
C1_SharedBoundary ==
    tr.pc # "idle" =>
        /\ Len(tr_out) >= 1 => tr_out[1][1] = tr.begin
        /\ TrDone => Len(tr_out) >= 1 /\ tr_out[Len(tr_out)][2] = tr.end
        /\ \A k \in 2..Len(tr_out) : tr_out[k][1] = tr_out[k - 1][2]

\* C1 amended: the first t0 is begin, the last t1 is end, and each t0 is
\* exactly one microsecond (the resolution of datetime) after the previous
\* t1: no representable instant is missed and none is covered twice.
C1_Tiling ==
    tr.pc # "idle" =>
        /\ Len(tr_out) >= 1 => tr_out[1][1] = tr.begin
        /\ TrDone => Len(tr_out) >= 1 /\ tr_out[Len(tr_out)][2] = tr.end
        /\ \A k \in 2..Len(tr_out) :
              tr_out[k][1] = datetime(tr_out[k - 1][2].us + 1, tr_out[k - 1][2].tzinfo)

C1_Witness ==
    /\ tr.pc # "idle" /\ TrDone /\ Len(tr_out) >= 3
    /\ tr.begin.us > PeriodStart(tr.freq, TrFirstPeriod)
    /\ tr.freq = "m"

\* C8: begin == end yields exactly one sub-interval, (begin, begin),
\* wherever begin lies in its period.
C8_Degenerate ==
    (tr.pc # "idle" /\ tr.begin = tr.end) =>
        /\ \A k \in 1..Len(tr_out) : k = 1 /\ tr_out[k] = <<tr.begin, tr.begin>>
        /\ TrDone => Len(tr_out) = 1

C8_Witness ==
    /\ tr.pc # "idle" /\ TrDone /\ tr.begin = tr.end /\ Len(tr_out) = 1
    /\ tr.begin.us = PeriodStart(tr.freq, TrFirstPeriod)
    /\ tr.begin.us > 0

\* C9: successive t0 are strictly increasing and every yielded pair
\* satisfies begin <= t0 <= t1 <= end.
C9_Monotone ==
    tr.pc # "idle" =>
        /\ \A k \in 2..Len(tr_out) : tr_out[k - 1][1].us < tr_out[k][1].us
        /\ \A k \in 1..Len(tr_out) :
              /\ tr.begin.us <= tr_out[k][1].us
              /\ tr_out[k][1].us <= tr_out[k][2].us
              /\ tr_out[k][2].us <= tr.end.us

C9_Witness ==
    /\ tr.pc # "idle" /\ TrDone /\ Len(tr_out) >= 2
    /\ tr.begin.us > PeriodStart(tr.freq, TrFirstPeriod)
    /\ tr.end.us < PeriodStart(tr.freq, tr.t) - 1

\* C10: a consumer that keeps pulling reaches exhaustion; the generator
\* stops at the first period that starts after end, having yielded one
\* sub-interval for each earlier period and none for that one.
C10_Terminates ==
    <>[](/\ TrDone
         /\ PeriodStart(tr.freq, tr.t) > tr.end.us
         /\ PeriodStart(tr.freq, tr.t - 1) <= tr.end.us
         /\ Len(tr_out) = tr.t - TrFirstPeriod)

C10_Witness ==
    /\ tr.pc # "idle" /\ TrDone /\ Len(tr_out) >= 2
    /\ PeriodStart(tr.freq, tr.t) > tr.end.us + 1

\* ---- properties of chop_query_by_time ----
\* every sub-interval a time_range generator yields from frame g on
RECURSIVE TimeRangeList(_)
TimeRangeList(g) ==
    LET r == TimeRangeResume(g)
    IN IF r.out = <<>> THEN <<>> ELSE r.out \o TimeRangeList(r.g)

NoTime(st) == "time" \notin DOMAIN st \/ st["time"] = None
ChopRan == chop.pc \notin {"idle", "start"}

\* C2: chopping a Query without a time interval (term absent, or None)
\* fails with ValueError and yields nothing; no other fault is raised.
C2_NoTimeValueError ==
    (ChopRan /\ NoTime(chop_q0)) => (chop.pc = "ValueError" /\ chop_out = <<>>)

\* C7: the k-th sub-query carries the k-th sub-interval of
\* time_range(time.begin, time.end, freq) as its time term and the input's
\* other terms unchanged; the input Query's terms are left as they were.
C7_SubQueries ==
    (chop.pc # "idle" /\ ~NoTime(chop_q0)) =>
        LET time == chop_q0["time"]
            ivs == TimeRangeList(time_range(time.begin, time.end, chop.freq))
        IN /\ chop.q.search_terms = chop_q0
           /\ Len(chop_out) <= Len(ivs)
           /\ chop.pc = "done" => Len(chop_out) = Len(ivs)
           /\ chop.pc \notin {"KeyError", "ValueError"}
           /\ \A k \in 1..Len(chop_out) :
                LET st == chop_out[k].search_terms
                IN /\ DOMAIN st = DOMAIN chop_q0
                   /\ st["time"] = Range(ivs[k][1], ivs[k][2])
                   /\ \A key \in DOMAIN chop_q0 \ {"time"} : st[key] = chop_q0[key]

C7_Witness ==
    /\ chop.pc = "done" /\ Len(chop_out) >= 3
    /\ chop_out[2].search_terms["product"] = "s2"

\* ---- properties of ordered_dss ----
\* every sub-query a chop_query_by_time generator yields from frame g on
RECURSIVE ChopList(_)
ChopList(g) ==
    LET r == ChopResume(g)
    IN IF r.out = <<>> THEN <<>> ELSE r.out \o ChopList(r.g)

NonDecreasing(recs) ==
    \A j \in 2..Len(recs) : recs[j - 1].center_time <= recs[j].center_time
Count(recs, x) == Cardinality({j \in 1..Len(recs) : recs[j] = x})
\* recs holds no record more often than batch does
SubBag(recs, batch) == \A j \in 1..Len(recs) : Count(recs, recs[j]) <= Count(batch, recs[j])
OdsSubQueries == ChopList(chop_query_by_time(Query(ods.query), ods.freq))

C5_State ==
    ods.pc # "idle" =>
        /\ Len(find_calls) <= Len(OdsSubQueries)
        /\ \A k \in 1..Len(find_calls) : find_calls[k] = OdsSubQueries[k].search_terms
        /\ ods.pc = "done" => Len(find_calls) = Len(OdsSubQueries)
        /\ NonDecreasing(ods_yield)
        /\ SubBag(ods_yield, ods_found)
        /\ ods.pc = "done" => Len(ods_yield) = Len(ods_found)

\* C5: one find_datasets call per sub-query of chop_query_by_time, in
\* order; the records yielded after a call are records of its batch in
\* non-decreasing center-time order, and all of them have been yielded when
\* the next call is issued.
C5_BatchOrder ==
    /\ []C5_State
    /\ [][find_calls' # find_calls => Len(ods_yield) = Len(ods_found)]_vars

C5_Witness ==
    /\ ods.pc = "done" /\ Len(find_calls) >= 3
    /\ ods_prev >= 0
    /\ Len(ods_found) = 2 /\ Len(ods_yield) = 2
    /\ ods_found[1].center_time > ods_found[2].center_time

\* C6: while every batch has had its center times inside its own
\* sub-interval the whole stream is non-decreasing by center time: a batch
\* starts no earlier than the record yielded last before it; within a batch
\* the order holds in any case.
C6_GlobalOrder ==
    ods.pc # "idle" =>
        /\ NonDecreasing(ods_yield)
        /\ (ods_inb /\ ods_prev >= 0 /\ ods_yield # <<>>)
              => ods_prev <= ods_yield[1].center_time

C6_Witness ==
    /\ ods.pc = "done" /\ ods_inb /\ Len(find_calls) >= 3
    /\ ods_prev >= 0 /\ Len(ods_yield) = 2
    /\ ods_prev < ods_yield[1].center_time

\* without the assumption of C6 the stream can go back in time between batches
C6_Unordered ==
    /\ ods.pc # "idle" /\ ~ods_inb
    /\ ods_prev >= 0 /\ ods_yield # <<>>
    /\ ods_prev > ods_yield[1].center_time

\* ---- properties of parse_doc_stream ----
\* the (uri, doc) of the items among the first n whose parsing failed
RECURSIVE FailedItems(_, _, _)
FailedItems(stream, failed, n) ==
    IF n = 0 THEN <<>>
    ELSE FailedItems(stream, failed, n - 1)
            \o (IF failed[n] THEN <<stream[n]>> ELSE <<>>)

\* C3: one (uri, metadata) pair per input item, in input order, the uri
\* kept; a failing item's metadata is None; on_error, when supplied, has
\* been called once per failing item, with its uri, and for no other item;
\* the stream goes on after a failure.
C3_ParseStream ==
    pds.pc # "idle" =>
        /\ Len(pds_out) = pds.pos /\ Len(pds_failed) = pds.pos
        /\ pds.pc = "done" => pds.pos = Len(pds.doc_stream)
        /\ \A k \in 1..Len(pds_out) :
              /\ pds_out[k][1] = pds.doc_stream[k][1]
              /\ pds_out[k][2] = IF pds_failed[k] THEN None
                                 ELSE Parsed(pds.doc_stream[k][2])
        /\ on_error_calls = IF pds.on_error
                            THEN FailedItems(pds.doc_stream, pds_failed, pds.pos)
                            ELSE <<>>

C3_Witness ==
    /\ pds.pc = "done" /\ pds.on_error /\ Len(pds_out) = 3
    /\ pds_failed = <<FALSE, TRUE, FALSE>>
    /\ Len(on_error_calls) = 1
    /\ pds.doc_stream[1][1] # pds.doc_stream[2][1]

\* ---- properties of from_metadata_stream ----
\* the (metadata, uri) of the items among the first n that have metadata
RECURSIVE Resolvable(_, _)
Resolvable(stream, n) ==
    IF n = 0 THEN <<>>
    ELSE Resolvable(stream, n - 1)
            \o (IF stream[n][2] # None THEN << <<stream[n][2], stream[n][1]>> >> ELSE <<>>)

\* C4: N inputs give N results in input order, each with exactly one of
\* dataset and error message; an item without metadata gives the error
\* naming its uri and no resolver call; every other item gives one call.
C4_Resolution ==
    fms.pc # "idle" =>
        /\ Len(fms_out) = fms.pos
        /\ fms.pc = "done" => fms.pos = Len(fms.metadata_stream)
        /\ \A k \in 1..Len(fms_out) :
              /\ (fms_out[k][1] = None) # (fms_out[k][2] = None)
              /\ fms.metadata_stream[k][2] = None =>
                    fms_out[k] = <<None, Str(<<"Error: empty doc ", fms.metadata_stream[k][1]>>)>>
              /\ fms_out[k][1] # None => fms_out[k][1].uri = fms.metadata_stream[k][1]
              /\ (fms_out[k][1] = None /\ fms.metadata_stream[k][2] # None) =>
                    fms_out[k][2].text[2] = fms.metadata_stream[k][1]
        /\ doc2ds_calls = Resolvable(fms.metadata_stream, fms.pos)

C4_Witness ==
    /\ fms.pc = "done" /\ Len(fms_out) = 3
    /\ fms.metadata_stream[2][2] = None
    /\ fms_out[1][1] # None /\ fms_out[3][1] = None
    /\ Len(doc2ds_calls) = 2
====
